---------------------------- MODULE Spec2Model ----------------------------
(***************************************************************************)
(* A model of colmap's camera model registry, src/base/camera_models.cc:   *)
(* the name/id maps built during static initialization, the two registry   *)
(* lookups, the parameter initializer, the four introspection lookups and  *)
(* the two validators.                                                     *)
(*                                                                         *)
(* Representation.                                                         *)
(*  - A std::vector<double> is a sequence; the C++ index i is position     *)
(*    i + 1 of the sequence.                                               *)
(*  - A double is an integer number of tenths (1000.0 is 10000, 0.1 is 1). *)
(*    Every value the modelled code computes (x, x / 2.0, 0) is exact in   *)
(*    that representation, and a quotient a / b is only ever compared, by  *)
(*    cross multiplication with b > 0.                                     *)
(*  - A std::unordered_map is a function whose DOMAIN is its key set.      *)
(*                                                                         *)
(* base/camera_models.h (the variant classes, CAMERA_MODEL_CASES,          *)
(* kInvalidCameraModelId and each variant's HasBogusParams) is not part of *)
(* the sources at hand: those definitions follow the specification.        *)
(***************************************************************************)
EXTENDS Integers, Sequences, FiniteSets

VARIABLES
  pc,                       \* position of the process: static init or main
  next_case,                \* next CAMERA_MODEL_CASE the running initializer expands
  local_map,                \* the running initializer's local unordered_map
  CAMERA_MODEL_NAME_TO_ID,  \* the static map of line 59
  CAMERA_MODEL_ID_TO_NAME,  \* the static map of line 84
  constructed,              \* how often each static map has been constructed
  thr,                      \* each thread's position inside a registry lookup
  lookup_called,            \* whether any registry lookup has been called yet
  params,                   \* the caller's parameter vector
  op,                       \* the last completed call
  args,                     \* its arguments
  ret                       \* its return value

registry_vars == <<pc, next_case, local_map, CAMERA_MODEL_NAME_TO_ID,
                   CAMERA_MODEL_ID_TO_NAME, constructed>>
thread_vars == <<thr, lookup_called>>
call_vars == <<params, op, args, ret>>
vars == <<pc, next_case, local_map, CAMERA_MODEL_NAME_TO_ID,
          CAMERA_MODEL_ID_TO_NAME, constructed, thr, lookup_called,
          params, op, args, ret>>

---------------------------------------------------------------------------
(* Bounds of the model. *)

\* Longest vector a caller hands in (the longest variant has 5 parameters).
MaxLen == 6

\* Model ids tried are kInvalidCameraModelId .. MaxModelId.
MaxModelId == 3

\* Threads that call the registry lookups concurrently.
NumThreads == 2

---------------------------------------------------------------------------
(* The variant table of base/camera_models.h. *)

kInvalidCameraModelId == -1

CAMERA_MODEL_CASES ==
  << [model_id |-> 0, model_name |-> "PINHOLE", num_params |-> 4,
      params_info |-> "fx, fy, cx, cy",
      focal_length_idxs |-> <<0, 1>>,
      principal_point_idxs |-> <<2, 3>>,
      extra_params_idxs |-> << >>],
     [model_id |-> 1, model_name |-> "SIMPLE_PINHOLE", num_params |-> 3,
      params_info |-> "f, cx, cy",
      focal_length_idxs |-> <<0>>,
      principal_point_idxs |-> <<1, 2>>,
      extra_params_idxs |-> << >>],
     [model_id |-> 2, model_name |-> "RADIAL", num_params |-> 5,
      params_info |-> "fx, fy, cx, cy, k",
      focal_length_idxs |-> <<0, 1>>,
      principal_point_idxs |-> <<2, 3>>,
      extra_params_idxs |-> <<4>>] >>

\* The macro differs from CAMERA_MODEL_CASES only in that it is used inside
\* a switch statement.
CAMERA_MODEL_SWITCH_CASES == CAMERA_MODEL_CASES

\* switch (model_id): whether some case label equals model_id ...
HasCase(model_id) ==
  \E i \in DOMAIN CAMERA_MODEL_SWITCH_CASES :
     CAMERA_MODEL_SWITCH_CASES[i].model_id = model_id

\* ... and the variant of the first such label.
SwitchCase(model_id) ==
  LET i == CHOOSE j \in DOMAIN CAMERA_MODEL_SWITCH_CASES :
             /\ CAMERA_MODEL_SWITCH_CASES[j].model_id = model_id
             /\ \A k \in 1..(j - 1) :
                   CAMERA_MODEL_SWITCH_CASES[k].model_id # model_id
  IN  CAMERA_MODEL_SWITCH_CASES[i]

---------------------------------------------------------------------------
(* Doubles and vectors. *)

\* The conversion of an integer to double (tenths).
ToDouble(n) == 10 * n

\* width / 2 in integer arithmetic: the half is truncated.
HalfOfSize_IntDiv(n) == ToDouble(n \div 2)

\* width / 2.0: the size_t is converted to double, then halved.
HalfOfSize(n) == 5 * n

Abs(x) == IF x < 0 THEN -x ELSE x

Max(a, b) == IF a < b THEN b ELSE a

\* (*params)[idx]
At(v, idx) == v[idx + 1]

\* (*params)[idx] = x
Assign(v, idx, x) == [v EXCEPT ![idx + 1] = x]

\* if (params->size() < n) params->resize(n): never shrinks.
Resize_GrowOnly(v, n) ==
  IF Len(v) >= n THEN v
  ELSE [i \in 1..n |-> IF i <= Len(v) THEN v[i] ELSE 0]

\* params->resize(n): the first min(size, n) elements are kept, new elements
\* are value-initialized (0.0).
Resize(v, n) == [i \in 1..n |-> IF i <= Len(v) THEN v[i] ELSE 0]

\* for (const int idx : idxs) { (*params)[idx] = x; }
RECURSIVE AssignAll(_, _, _)
AssignAll(v, idxs, x) ==
  IF idxs = << >> THEN v
  ELSE AssignAll(Assign(v, Head(idxs), x), Tail(idxs), x)

---------------------------------------------------------------------------
(* std::unordered_map. *)

EmptyMap == << >>

\* m.count(k)
Count(m, k) == IF k \in DOMAIN m THEN 1 ELSE 0

\* m.emplace(k, v): no effect when the key is present.
Emplace(m, k, v) ==
  IF k \in DOMAIN m THEN m
  ELSE [x \in (DOMAIN m) \cup {k} |-> IF x = k THEN v ELSE m[x]]

\* m[k] on a non-const map: a missing key is inserted with a
\* value-initialized mapped value.
Subscript(m, k, dflt) == Emplace(m, k, dflt)

---------------------------------------------------------------------------
(* The name/id registry, lines 45-93. *)

\* One expansion of CAMERA_MODEL_CASE inside InitialzeCameraModelNameToId,
\* lines 48-50, for the i-th variant.
NameToIdCase(m, i) ==
  Emplace(m, CAMERA_MODEL_CASES[i].model_name, CAMERA_MODEL_CASES[i].model_id)

\* The expansion keyed by the wrong integer member of the variant.
IdToNameCase_WrongKey(m, i) ==
  Emplace(m, CAMERA_MODEL_CASES[i].num_params, CAMERA_MODEL_CASES[i].model_name)

\* One expansion of CAMERA_MODEL_CASE inside InitialzeCameraModelIdToName,
\* lines 73-75.
IdToNameCase(m, i) ==
  Emplace(m, CAMERA_MODEL_CASES[i].model_id, CAMERA_MODEL_CASES[i].model_name)

\* The whole of InitialzeCameraModelNameToId: expansions i..n applied to m.
RECURSIVE EmplaceNameToId(_, _)
EmplaceNameToId(m, i) ==
  IF i > Len(CAMERA_MODEL_CASES) THEN m
  ELSE EmplaceNameToId(NameToIdCase(m, i), i + 1)

InitialzeCameraModelNameToId == EmplaceNameToId(EmptyMap, 1)

\* The whole of InitialzeCameraModelIdToName.
RECURSIVE EmplaceIdToName(_, _)
EmplaceIdToName(m, i) ==
  IF i > Len(CAMERA_MODEL_CASES) THEN m
  ELSE EmplaceIdToName(IdToNameCase(m, i), i + 1)

InitialzeCameraModelIdToName == EmplaceIdToName(EmptyMap, 1)

\* A lookup through operator[], which yields a value-initialized int for a
\* key that is absent.
CameraModelNameToId_Subscript(model_name) ==
  IF Count(CAMERA_MODEL_NAME_TO_ID, model_name) > 0
    THEN CAMERA_MODEL_NAME_TO_ID[model_name]
    ELSE 0

CameraModelNameToId(model_name) ==
  IF Count(CAMERA_MODEL_NAME_TO_ID, model_name) > 0
    THEN CAMERA_MODEL_NAME_TO_ID[model_name]
    ELSE kInvalidCameraModelId

CameraModelIdToName(model_id) ==
  IF Count(CAMERA_MODEL_ID_TO_NAME, model_id) > 0
    THEN CAMERA_MODEL_ID_TO_NAME[model_id]
    ELSE "INVALID_CAMERA_MODEL"

---------------------------------------------------------------------------
(* The parameter initializer, lines 95-119. *)

CameraModelInitializeParams(model_id, focal_length, width, height, v) ==
  IF HasCase(model_id)
    THEN LET CameraModel == SwitchCase(model_id)
             p0 == Resize(v, CameraModel.num_params)
             p1 == AssignAll(p0, CameraModel.focal_length_idxs, focal_length)
             p2 == Assign(p1, CameraModel.principal_point_idxs[1],
                          HalfOfSize(width))
             p3 == Assign(p2, CameraModel.principal_point_idxs[2],
                          HalfOfSize(height))
         IN  AssignAll(p3, CameraModel.extra_params_idxs, ToDouble(0))
    ELSE v   \* no case matches and the switch has no default

---------------------------------------------------------------------------
(* The introspection lookups, lines 121-179. *)

\* The lookup with an empty string after the switch.
CameraModelParamsInfo_Empty(model_id) ==
  IF HasCase(model_id) THEN SwitchCase(model_id).params_info ELSE ""

CameraModelParamsInfo(model_id) ==
  IF HasCase(model_id) THEN SwitchCase(model_id).params_info
  ELSE "Camera model does not exist"

CameraModelFocalLengthIdxs(model_id) ==
  IF HasCase(model_id) THEN SwitchCase(model_id).focal_length_idxs
  ELSE << >>

CameraModelPrincipalPointIdxs(model_id) ==
  IF HasCase(model_id) THEN SwitchCase(model_id).principal_point_idxs
  ELSE << >>

CameraModelExtraParamsIdxs(model_id) ==
  IF HasCase(model_id) THEN SwitchCase(model_id).extra_params_idxs
  ELSE << >>

---------------------------------------------------------------------------
(* The validators, lines 181-219. *)

\* The size test written as "at least".
CameraModelVerifyParams_AtLeast(model_id, v) ==
  /\ HasCase(model_id)
  /\ Len(v) >= SwitchCase(model_id).num_params

CameraModelVerifyParams(model_id, v) ==
  /\ HasCase(model_id)
  /\ Len(v) = SwitchCase(model_id).num_params

\* for (idx : focal_length_idxs): params[idx] / max_size outside
\* [min_focal_length_ratio, max_focal_length_ratio] returns true.
RECURSIVE HasBogusFocalLength(_, _, _, _, _)
HasBogusFocalLength(idxs, v, max_size, min_ratio, max_ratio) ==
  IF idxs = << >> THEN FALSE
  ELSE IF \/ 10 * At(v, Head(idxs)) < min_ratio * ToDouble(max_size)
          \/ 10 * At(v, Head(idxs)) > max_ratio * ToDouble(max_size)
         THEN TRUE
         ELSE HasBogusFocalLength(Tail(idxs), v, max_size, min_ratio, max_ratio)

\* for (idx : extra_params_idxs): abs(params[idx]) > max_extra_param
\* returns true.
RECURSIVE HasBogusExtraParams(_, _, _)
HasBogusExtraParams(idxs, v, max_extra_param) ==
  IF idxs = << >> THEN FALSE
  ELSE IF Abs(At(v, Head(idxs))) > max_extra_param
         THEN TRUE
         ELSE HasBogusExtraParams(Tail(idxs), v, max_extra_param)

\* CameraModel::HasBogusParams of one variant.
VariantHasBogusParams(CameraModel, v, width, height, min_focal_length_ratio, max_focal_length_ratio, max_extra_param) ==
  \/ HasBogusFocalLength(CameraModel.focal_length_idxs, v, Max(width, height),
                         min_focal_length_ratio, max_focal_length_ratio)
  \/ HasBogusExtraParams(CameraModel.extra_params_idxs, v, max_extra_param)

\* The dispatcher with "return true" after the switch.
CameraModelHasBogusParams_DefaultTrue(model_id, v, width, height, min_focal_length_ratio, max_focal_length_ratio, max_extra_param) ==
  IF HasCase(model_id)
    THEN VariantHasBogusParams(SwitchCase(model_id), v, width, height,
           min_focal_length_ratio, max_focal_length_ratio, max_extra_param)
    ELSE TRUE

CameraModelHasBogusParams(model_id, v, width, height, min_focal_length_ratio, max_focal_length_ratio, max_extra_param) ==
  IF HasCase(model_id)
    THEN VariantHasBogusParams(SwitchCase(model_id), v, width, height,
           min_focal_length_ratio, max_focal_length_ratio, max_extra_param)
    ELSE FALSE

---------------------------------------------------------------------------
(* Inputs. *)

ModelIds == kInvalidCameraModelId..MaxModelId

RegisteredIds == {CAMERA_MODEL_CASES[i].model_id : i \in DOMAIN CAMERA_MODEL_CASES}

RegisteredNames ==
  {CAMERA_MODEL_CASES[i].model_name : i \in DOMAIN CAMERA_MODEL_CASES}

\* Registered names, and prefixes, case variants and other strings.
ModelNames ==
  RegisteredNames \cup {"", "PIN", "SIMPLE_", "pinhole", "Radial", "RADIAL ",
                        "__not_a_model__", "INVALID_CAMERA_MODEL"}

\* 1.5, 50.0 and 1000.0
FocalLengths == {15, ToDouble(50), ToDouble(1000)}

Sizes == {1, 3, 1080, 1920}

\* (min_focal_length_ratio, max_focal_length_ratio, max_extra_param):
\* (0.1, 2.0, 1.0) and (1.0, 1.0, 1.5)
Thresholds ==
  { [min_focal_length_ratio |-> 1, max_focal_length_ratio |-> 20,
     max_extra_param |-> 10],
    [min_focal_length_ratio |-> 10, max_focal_length_ratio |-> 10,
     max_extra_param |-> 15] }

\* Values a caller stores that the initializer never writes for any of the
\* inputs above: -1.5 and 1.0
ParamValues == {-15, 10}

CallerVectors == UNION {[1..n -> ParamValues] : n \in 0..MaxLen}

Threads == 1..NumThreads

Idle == [at |-> "idle"]

---------------------------------------------------------------------------
(* Static initialization of the translation unit, lines 59-60 and 84-85:   *)
(* the two maps are initialized in the order of their definitions, by the  *)
(* one thread that runs static initialization, before main() starts.       *)

Init ==
  /\ pc = "InitialzeCameraModelNameToId"
  /\ next_case = 1
  /\ local_map = EmptyMap
  /\ CAMERA_MODEL_NAME_TO_ID = EmptyMap
  /\ CAMERA_MODEL_ID_TO_NAME = EmptyMap
  /\ constructed = [name_to_id |-> 0, id_to_name |-> 0]
  /\ thr = [t \in Threads |-> Idle]
  /\ lookup_called = FALSE
  /\ params = << >>
  /\ op = "none"
  /\ args = << >>
  /\ ret = << >>

StaticNameToIdCase ==
  /\ pc = "InitialzeCameraModelNameToId"
  /\ next_case <= Len(CAMERA_MODEL_CASES)
  /\ local_map' = NameToIdCase(local_map, next_case)
  /\ next_case' = next_case + 1
  /\ UNCHANGED <<pc, CAMERA_MODEL_NAME_TO_ID, CAMERA_MODEL_ID_TO_NAME,
                 constructed, thread_vars, call_vars>>

\* return camera_model_name_to_id; the static map is constructed from it.
StaticNameToIdReturn ==
  /\ pc = "InitialzeCameraModelNameToId"
  /\ next_case > Len(CAMERA_MODEL_CASES)
  /\ CAMERA_MODEL_NAME_TO_ID' = local_map
  /\ constructed' = [constructed EXCEPT !.name_to_id = @ + 1]
  /\ pc' = "InitialzeCameraModelIdToName"
  /\ next_case' = 1
  /\ local_map' = EmptyMap
  /\ UNCHANGED <<CAMERA_MODEL_ID_TO_NAME, thread_vars, call_vars>>

StaticIdToNameCase ==
  /\ pc = "InitialzeCameraModelIdToName"
  /\ next_case <= Len(CAMERA_MODEL_CASES)
  /\ local_map' = IdToNameCase(local_map, next_case)
  /\ next_case' = next_case + 1
  /\ UNCHANGED <<pc, CAMERA_MODEL_NAME_TO_ID, CAMERA_MODEL_ID_TO_NAME,
                 constructed, thread_vars, call_vars>>

\* return camera_model_id_to_name; static initialization is over.
StaticIdToNameReturn ==
  /\ pc = "InitialzeCameraModelIdToName"
  /\ next_case > Len(CAMERA_MODEL_CASES)
  /\ CAMERA_MODEL_ID_TO_NAME' = local_map
  /\ constructed' = [constructed EXCEPT !.id_to_name = @ + 1]
  /\ pc' = "main"
  /\ next_case' = 1
  /\ local_map' = EmptyMap
  /\ UNCHANGED <<CAMERA_MODEL_NAME_TO_ID, thread_vars, call_vars>>

StaticInit ==
  \/ StaticNameToIdCase
  \/ StaticNameToIdReturn
  \/ StaticIdToNameCase
  \/ StaticIdToNameReturn

---------------------------------------------------------------------------
(* Calls of the API by the program, one whole call per step. *)

\* The program is in main() and its last call has been dealt with.
Calling == pc = "main" /\ op = "none"

\* The caller stores a vector of its own (deserialization, calibration).
CallerSetParams ==
  /\ Calling
  /\ \E v \in CallerVectors :
        /\ params' = v
        /\ op' = "SetParams"
        /\ args' = << >>
        /\ ret' = << >>
  /\ UNCHANGED <<registry_vars, thread_vars>>

CallNameToId ==
  /\ Calling
  /\ \E model_name \in ModelNames :
        /\ op' = "NameToId"
        /\ args' = [model_name |-> model_name]
        /\ ret' = CameraModelNameToId(model_name)
  /\ lookup_called' = TRUE
  /\ UNCHANGED <<registry_vars, thr, params>>

CallIdToName ==
  /\ Calling
  /\ \E model_id \in ModelIds :
        /\ op' = "IdToName"
        /\ args' = [model_id |-> model_id]
        /\ ret' = CameraModelIdToName(model_id)
  /\ lookup_called' = TRUE
  /\ UNCHANGED <<registry_vars, thr, params>>

\* The call returns void; whether it failed is all a caller could observe
\* besides the vector, and no path of the function throws or aborts.
CallInitializeParams ==
  /\ Calling
  /\ \E model_id \in ModelIds, focal_length \in FocalLengths,
        width \in Sizes, height \in Sizes :
        /\ params' = CameraModelInitializeParams(model_id, focal_length,
                                                 width, height, params)
        /\ op' = "InitializeParams"
        /\ args' = [model_id |-> model_id, focal_length |-> focal_length,
                    width |-> width, height |-> height, prior |-> params]
        /\ ret' = "returned"
  /\ UNCHANGED <<registry_vars, thread_vars>>

CallParamsInfo ==
  /\ Calling
  /\ \E model_id \in ModelIds :
        /\ op' = "ParamsInfo"
        /\ args' = [model_id |-> model_id]
        /\ ret' = CameraModelParamsInfo(model_id)
  /\ UNCHANGED <<registry_vars, thread_vars, params>>

CallFocalLengthIdxs ==
  /\ Calling
  /\ \E model_id \in ModelIds :
        /\ op' = "FocalLengthIdxs"
        /\ args' = [model_id |-> model_id]
        /\ ret' = CameraModelFocalLengthIdxs(model_id)
  /\ UNCHANGED <<registry_vars, thread_vars, params>>

CallPrincipalPointIdxs ==
  /\ Calling
  /\ \E model_id \in ModelIds :
        /\ op' = "PrincipalPointIdxs"
        /\ args' = [model_id |-> model_id]
        /\ ret' = CameraModelPrincipalPointIdxs(model_id)
  /\ UNCHANGED <<registry_vars, thread_vars, params>>

CallExtraParamsIdxs ==
  /\ Calling
  /\ \E model_id \in ModelIds :
        /\ op' = "ExtraParamsIdxs"
        /\ args' = [model_id |-> model_id]
        /\ ret' = CameraModelExtraParamsIdxs(model_id)
  /\ UNCHANGED <<registry_vars, thread_vars, params>>

CallVerifyParams ==
  /\ Calling
  /\ \E model_id \in ModelIds :
        /\ op' = "VerifyParams"
        /\ args' = [model_id |-> model_id]
        /\ ret' = CameraModelVerifyParams(model_id, params)
  /\ UNCHANGED <<registry_vars, thread_vars, params>>

\* A variant's predicate reads params[idx] for its index groups: the call is
\* made for a registered id only with a vector of that variant's length (a
\* shorter one is read out of bounds), and with a positive image size.
CallHasBogusParams ==
  /\ Calling
  /\ \E model_id \in ModelIds, width \in Sizes, height \in Sizes,
        t \in Thresholds :
        /\ HasCase(model_id) => CameraModelVerifyParams(model_id, params)
        /\ op' = "HasBogusParams"
        /\ args' = [model_id |-> model_id, width |-> width, height |-> height,
                    min_focal_length_ratio |-> t.min_focal_length_ratio,
                    max_focal_length_ratio |-> t.max_focal_length_ratio,
                    max_extra_param |-> t.max_extra_param]
        /\ ret' = CameraModelHasBogusParams(model_id, params, width, height,
                    t.min_focal_length_ratio, t.max_focal_length_ratio,
                    t.max_extra_param)
  /\ UNCHANGED <<registry_vars, thread_vars, params>>

\* The caller is done with the result of its last call and goes on.
CallerContinue ==
  /\ pc = "main"
  /\ op # "none"
  /\ op' = "none"
  /\ args' = << >>
  /\ ret' = << >>
  /\ UNCHANGED <<registry_vars, thread_vars, params>>

Next ==
  \/ StaticInit
  \/ CallerSetParams
  \/ CallNameToId
  \/ CallIdToName
  \/ CallInitializeParams
  \/ CallParamsInfo
  \/ CallFocalLengthIdxs
  \/ CallPrincipalPointIdxs
  \/ CallExtraParamsIdxs
  \/ CallVerifyParams
  \/ CallHasBogusParams
  \/ CallerContinue

Spec == Init /\ [][Next]_vars

---------------------------------------------------------------------------
(* Registry lookups by concurrent threads, one statement per step.  The    *)
(* threads are those of the program, which exist once main() runs.         *)

\* int CameraModelNameToId(const std::string& model_name) is entered.
ThreadCallNameToId(t) ==
  /\ pc = "main"
  /\ thr[t] = Idle
  /\ \E model_name \in ModelNames :
        thr' = [thr EXCEPT ![t] = [at |-> "NameToId_count", key |-> model_name]]
  /\ lookup_called' = TRUE
  /\ UNCHANGED <<registry_vars, call_vars>>

\* A lookup written return CAMERA_MODEL_NAME_TO_ID[model_name]; on a map
\* that is not const: a missing key is inserted.
ThreadNameToIdCount_Subscript(t) ==
  /\ thr[t].at = "NameToId_count"
  /\ CAMERA_MODEL_NAME_TO_ID' = Subscript(CAMERA_MODEL_NAME_TO_ID, thr[t].key, 0)
  /\ thr' = [thr EXCEPT ![t] = [at |-> "returned", key |-> thr[t].key,
                                ret |-> CAMERA_MODEL_NAME_TO_ID'[thr[t].key]]]
  /\ UNCHANGED <<pc, next_case, local_map, CAMERA_MODEL_ID_TO_NAME,
                 constructed, lookup_called, call_vars>>

\* if (CAMERA_MODEL_NAME_TO_ID.count(model_name)) ... else return
\* kInvalidCameraModelId;
ThreadNameToIdCount(t) ==
  /\ thr[t].at = "NameToId_count"
  /\ thr' = [thr EXCEPT ![t] =
       IF Count(CAMERA_MODEL_NAME_TO_ID, thr[t].key) > 0
         THEN [at |-> "NameToId_at", key |-> thr[t].key]
         ELSE [at |-> "returned", key |-> thr[t].key,
               ret |-> kInvalidCameraModelId]]
  /\ UNCHANGED <<registry_vars, lookup_called, call_vars>>

\* return CAMERA_MODEL_NAME_TO_ID.at(model_name);
ThreadNameToIdAt(t) ==
  /\ thr[t].at = "NameToId_at"
  /\ thr[t].key \in DOMAIN CAMERA_MODEL_NAME_TO_ID
  /\ thr' = [thr EXCEPT ![t] = [at |-> "returned", key |-> thr[t].key,
                                ret |-> CAMERA_MODEL_NAME_TO_ID[thr[t].key]]]
  /\ UNCHANGED <<registry_vars, lookup_called, call_vars>>

\* std::string CameraModelIdToName(const int model_id) is entered.
ThreadCallIdToName(t) ==
  /\ pc = "main"
  /\ thr[t] = Idle
  /\ \E model_id \in ModelIds :
        thr' = [thr EXCEPT ![t] = [at |-> "IdToName_count", key |-> model_id]]
  /\ lookup_called' = TRUE
  /\ UNCHANGED <<registry_vars, call_vars>>

\* if (CAMERA_MODEL_ID_TO_NAME.count(model_id)) ... else return
\* "INVALID_CAMERA_MODEL";
ThreadIdToNameCount(t) ==
  /\ thr[t].at = "IdToName_count"
  /\ thr' = [thr EXCEPT ![t] =
       IF Count(CAMERA_MODEL_ID_TO_NAME, thr[t].key) > 0
         THEN [at |-> "IdToName_at", key |-> thr[t].key]
         ELSE [at |-> "returned", key |-> thr[t].key,
               ret |-> "INVALID_CAMERA_MODEL"]]
  /\ UNCHANGED <<registry_vars, lookup_called, call_vars>>

\* return CAMERA_MODEL_ID_TO_NAME.at(model_id);
ThreadIdToNameAt(t) ==
  /\ thr[t].at = "IdToName_at"
  /\ thr[t].key \in DOMAIN CAMERA_MODEL_ID_TO_NAME
  /\ thr' = [thr EXCEPT ![t] = [at |-> "returned", key |-> thr[t].key,
                                ret |-> CAMERA_MODEL_ID_TO_NAME[thr[t].key]]]
  /\ UNCHANGED <<registry_vars, lookup_called, call_vars>>

\* The thread's caller takes the result.
ThreadReturn(t) ==
  /\ thr[t].at = "returned"
  /\ thr' = [thr EXCEPT ![t] = Idle]
  /\ UNCHANGED <<registry_vars, lookup_called, call_vars>>

NextRegistry ==
  \/ StaticInit
  \/ \E t \in Threads : ThreadCallNameToId(t)
  \/ \E t \in Threads : ThreadNameToIdCount(t)
  \/ \E t \in Threads : ThreadNameToIdAt(t)
  \/ \E t \in Threads : ThreadCallIdToName(t)
  \/ \E t \in Threads : ThreadIdToNameCount(t)
  \/ \E t \in Threads : ThreadIdToNameAt(t)
  \/ \E t \in Threads : ThreadReturn(t)

SpecRegistry == Init /\ [][NextRegistry]_vars

---------------------------------------------------------------------------
(* The claims. *)

\* The table entry of a registered id.
VariantOf(model_id) ==
  CHOOSE M \in {CAMERA_MODEL_CASES[i] : i \in DOMAIN CAMERA_MODEL_CASES} :
     M.model_id = model_id

NumParamsOfVariants ==
  {CAMERA_MODEL_CASES[i].num_params : i \in DOMAIN CAMERA_MODEL_CASES}

Initialized == op = "InitializeParams"

C2_InitializeParamsLayout ==
  (Initialized /\ args.model_id \in RegisteredIds) =>
     LET M == VariantOf(args.model_id) IN
       /\ Len(params) = M.num_params
       /\ \A k \in DOMAIN M.focal_length_idxs :
             At(params, M.focal_length_idxs[k]) = args.focal_length
       /\ 2 * At(params, M.principal_point_idxs[1]) = ToDouble(args.width)
       /\ 2 * At(params, M.principal_point_idxs[2]) = ToDouble(args.height)
       /\ \A k \in DOMAIN M.extra_params_idxs :
             At(params, M.extra_params_idxs[k]) = 0
       /\ (/\ args.model_id = 0
           /\ args.focal_length = ToDouble(1000)
           /\ args.width = 1920
           /\ args.height = 1080)
          => params = <<10000, 10000, 9600, 5400>>

\* The distortion-bearing variant is initialized for a 3 x 1 image into a
\* vector that held six other values: [50, 50, 1.5, 0.5, 0].
C2_Witness ==
  /\ Initialized
  /\ args.model_id = 2
  /\ args.focal_length = ToDouble(50)
  /\ args.width = 3
  /\ args.height = 1
  /\ args.prior = <<-15, 10, -15, 10, -15, 10>>
  /\ params = <<500, 500, 15, 5, 0>>

IdxLookups == {"FocalLengthIdxs", "PrincipalPointIdxs", "ExtraParamsIdxs"}

\* What each introspection lookup returns for a registered id.
C3_Registered ==
  (op \in IdxLookups \cup {"ParamsInfo"} /\ args.model_id \in RegisteredIds) =>
     LET M == VariantOf(args.model_id) IN
       /\ op = "ParamsInfo" => ret = M.params_info
       /\ op = "FocalLengthIdxs" => ret = M.focal_length_idxs
       /\ op = "PrincipalPointIdxs" =>
             ret = M.principal_point_idxs /\ Len(ret) = 2
       /\ op = "ExtraParamsIdxs" => ret = M.extra_params_idxs

C3_UnknownIdxsEmpty ==
  (op \in IdxLookups /\ args.model_id \notin RegisteredIds) => ret = << >>

\* C3 as stated: each of the four introspection lookups returns an empty
\* result when model_id is not a registered variant (ParamsInfo the empty
\* string, the three idx lookups the empty sequence); for a registered
\* variant each returns that variant's table entry, with PrincipalPointIdxs
\* of length exactly 2.
C3_UnknownLookupsEmpty ==
  /\ C3_Registered
  /\ C3_UnknownIdxsEmpty
  /\ (op = "ParamsInfo" /\ args.model_id \notin RegisteredIds) => ret = ""

\* C3 as amended: for an unregistered model_id ParamsInfo returns the fixed
\* string "Camera model does not exist", and FocalLengthIdxs,
\* PrincipalPointIdxs and ExtraParamsIdxs each return the empty sequence;
\* for a registered variant each returns that variant's table entry, with
\* PrincipalPointIdxs of length exactly 2.
C3_UnknownLookupsSentinel ==
  /\ C3_Registered
  /\ C3_UnknownIdxsEmpty
  /\ (op = "ParamsInfo" /\ args.model_id \notin RegisteredIds) =>
        ret = "Camera model does not exist"

C3_Witness ==
  /\ op = "ParamsInfo"
  /\ args.model_id = kInvalidCameraModelId
  /\ ret = "Camera model does not exist"

\* C4: VerifyParams(model_id, params) returns true if and only if model_id is
\* a registered variant and the length of params equals that variant's
\* num_params; it is false for every unknown id and every length mismatch,
\* and the result is the same for every vector of that length, whatever its
\* values.
C4_VerifyParamsStructural ==
  op = "VerifyParams" =>
     /\ ret = TRUE <=> (/\ args.model_id \in RegisteredIds
                        /\ Len(params) = VariantOf(args.model_id).num_params)
     /\ ret \in BOOLEAN
     /\ \A v \in CallerVectors :
           Len(v) = Len(params) =>
              CameraModelVerifyParams(args.model_id, v) = ret

\* A vector of five values that no initializer wrote passes for the
\* 5-parameter variant.
C4_Witness ==
  /\ op = "VerifyParams"
  /\ args.model_id = 2
  /\ params = <<-15, -15, 10, -15, 10>>
  /\ ret = TRUE

\* C5: for every registered variant the two registry lookups are mutually
\* inverse, NameToId(IdToName(id)) = id and IdToName(NameToId(name)) = name;
\* both maps hold one entry per variant of the table, and inserting a key
\* that is present does not overwrite the entry.
C5_RegistryRoundTrip ==
  /\ (op = "IdToName" /\ args.model_id \in RegisteredIds) =>
        CameraModelNameToId(ret) = args.model_id
  /\ (op = "NameToId" /\ args.model_name \in RegisteredNames) =>
        CameraModelIdToName(ret) = args.model_name
  /\ pc = "main" =>
        /\ DOMAIN CAMERA_MODEL_NAME_TO_ID = RegisteredNames
        /\ DOMAIN CAMERA_MODEL_ID_TO_NAME = RegisteredIds
        /\ \A i \in DOMAIN CAMERA_MODEL_CASES :
              /\ CAMERA_MODEL_NAME_TO_ID[CAMERA_MODEL_CASES[i].model_name]
                    = CAMERA_MODEL_CASES[i].model_id
              /\ CAMERA_MODEL_ID_TO_NAME[CAMERA_MODEL_CASES[i].model_id]
                    = CAMERA_MODEL_CASES[i].model_name
        /\ \A k \in DOMAIN CAMERA_MODEL_NAME_TO_ID :
              Emplace(CAMERA_MODEL_NAME_TO_ID, k, kInvalidCameraModelId)
                 = CAMERA_MODEL_NAME_TO_ID
        /\ \A k \in DOMAIN CAMERA_MODEL_ID_TO_NAME :
              Emplace(CAMERA_MODEL_ID_TO_NAME, k, "INVALID_CAMERA_MODEL")
                 = CAMERA_MODEL_ID_TO_NAME

C5_Witness ==
  /\ op = "IdToName"
  /\ args.model_id = 2
  /\ ret = "RADIAL"
  /\ CameraModelNameToId(ret) = 2

\* C6: NameToId returns the invalid-id sentinel for every string that is not
\* exactly a registered model_name (prefixes and case variants included), and
\* IdToName returns "INVALID_CAMERA_MODEL" for every id that is not a
\* registered model_id (the sentinel id included).
C6_UnknownLookupsSentinel ==
  /\ (op = "NameToId" /\ args.model_name \notin RegisteredNames) =>
        ret = kInvalidCameraModelId
  /\ (op = "IdToName" /\ args.model_id \notin RegisteredIds) =>
        ret = "INVALID_CAMERA_MODEL"

\* A case variant of a registered name is looked up.
C6_Witness ==
  /\ op = "NameToId"
  /\ args.model_name = "pinhole"
  /\ ret = kInvalidCameraModelId

\* params[idx] / max(width, height) lies outside the two ratios.
BogusFocal(idx) ==
  \/ 10 * At(params, idx)
        < args.min_focal_length_ratio * ToDouble(Max(args.width, args.height))
  \/ 10 * At(params, idx)
        > args.max_focal_length_ratio * ToDouble(Max(args.width, args.height))

C8_InitializedVerifies ==
  (Initialized /\ args.model_id \in RegisteredIds) =>
     CameraModelVerifyParams(args.model_id, params)

\* The vector was longer than the variant's num_params before the call.
C8_Witness ==
  /\ Initialized
  /\ args.model_id = 1
  /\ Len(args.prior) = 6
  /\ CameraModelVerifyParams(args.model_id, params)

\* C9 as stated: the maps are constructed by lazy initialization on first
\* lookup, so a map is constructed only once a lookup has been called.
C9_LazyOnFirstLookup ==
  (constructed.name_to_id > 0 \/ constructed.id_to_name > 0) => lookup_called

\* Each map is constructed at most once, both are complete when main()
\* runs, and lookups run only then.
C9_ConstructedBeforeLookups ==
  /\ constructed.name_to_id <= 1
  /\ constructed.id_to_name <= 1
  /\ pc = "main" =>
        /\ constructed = [name_to_id |-> 1, id_to_name |-> 1]
        /\ CAMERA_MODEL_NAME_TO_ID = InitialzeCameraModelNameToId
        /\ CAMERA_MODEL_ID_TO_NAME = InitialzeCameraModelIdToName
  /\ (lookup_called \/ \E t \in Threads : thr[t] # Idle) => pc = "main"

\* C9 as amended: the name-to-id and id-to-name maps are each constructed
\* exactly once per process, eagerly during static initialization before
\* main() starts (not lazily on first lookup, and without synchronization);
\* under any interleaving of lookups from the program's threads no lookup
\* observes a partially built map, and after construction no lookup
\* modifies either map.
C9_EagerOnceReadOnly ==
  /\ []C9_ConstructedBeforeLookups
  /\ [][pc = "main" =>
          /\ CAMERA_MODEL_NAME_TO_ID' = CAMERA_MODEL_NAME_TO_ID
          /\ CAMERA_MODEL_ID_TO_NAME' = CAMERA_MODEL_ID_TO_NAME
          /\ constructed' = constructed]_vars

\* Two threads are inside lookups at once, one of them reading the map.
C9_Witness ==
  /\ thr[1].at = "NameToId_at"
  /\ thr[2].at = "IdToName_count"
  /\ constructed = [name_to_id |-> 1, id_to_name |-> 1]

====
